---- MODULE Spec2Model ----
(***************************************************************************)
(* Model of ProgramBuilder (plaidml/bridge/openvino/plaidml_builder.cpp):  *)
(* the lowering of an nGraph function, node by node, into a PlaidML        *)
(* program.  One action per node translator (handleConstant,               *)
(* handleParameter, handleOutput, handleOp) and one for the tail of        *)
(* build() that binds the network's inputs and outputs.                    *)
(*                                                                         *)
(* The node sequence returned by get_ordered_ops() is an input of the      *)
(* builder: the model draws it one node at a time, so every order of the   *)
(* node universe (topological or not) up to MaxNodes nodes is explored and *)
(* the loop of build() may end after any prefix.                           *)
(*                                                                         *)
(* Undefined behaviour is a nondeterministic choice: an out-of-range       *)
(* std::vector read yields either a process fault or an arbitrary value    *)
(* (drawn from Garbage); a dereference of a null shared_ptr faults.        *)
(***************************************************************************)
EXTENDS Integers, Sequences, FiniteSets, TLC

VARIABLES
  network,                    \* the host network (ICNNNetwork), never written
  order,                      \* nodes dispatched so far by the loop of build()
  networkInputs,              \* cached InputsDataMap
  networkOutputs,             \* cached OutputsDataMap
  tensorMap,                  \* (node name, output index) -> Tensor
  tensorIONameMap,            \* network input/output name -> Tensor
  updateDependenciesNameMap,  \* (node name, output index) -> node name
  phase,                      \* "Traversing", "Built", "Failed", "Crashed"
  error,                      \* the exception that ended the build, if any
  attrs,                      \* visitor.attrs of the Operator translated last
  program                     \* the plaidml::Program returned, if any

vars == <<network, order, networkInputs, networkOutputs, tensorMap,
          tensorIONameMap, updateDependenciesNameMap, phase, error, attrs,
          program>>

(***************************************************************************)
(* Bounds of the model.                                                    *)
(***************************************************************************)
\* longest node sequence the loop of build() is given
MaxNodes == 4
\* largest number of outputs an operator builder returns
MaxOutputs == 2

(***************************************************************************)
(* Program constants.                                                      *)
(***************************************************************************)
BiasChannels == 1000
FlatTrailingDim == 2048

RECURSIVE Product(_)
Product(dims) == IF dims = <<>> THEN 1 ELSE Head(dims) * Product(Tail(dims))

(***************************************************************************)
(* Element types.  nGraph element types, Inference Engine precisions and   *)
(* PlaidML DTypes are three different enumerations; to_plaidml converts    *)
(* the first two into the third.                                           *)
(***************************************************************************)
DTypes == {"FLOAT32", "INT32"}

to_plaidml_type(element_type) ==
  CASE element_type = "f32" -> "FLOAT32"
    [] element_type = "i32" -> "INT32"

to_plaidml_precision(precision) ==
  CASE precision = "FP32" -> "FLOAT32"
    [] precision = "I32" -> "INT32"

(***************************************************************************)
(* Tensor handles of the target representation (plaidml::edsl).            *)
(***************************************************************************)
Tensor(op, dtype, dims, name, args, data, index) ==
  [op |-> op, dtype |-> dtype, dims |-> dims, name |-> name,
   args |-> args, data |-> data, index |-> index]

\* plaidml::Buffer(shape) followed by copy_from(ptr): the first
\* Product(dims) elements of the source buffer
copy_from(dims, ptr) == [i \in 1..Product(dims) |-> ptr[i]]

Constant(dtype, dims, data, name) ==
  Tensor("Constant", dtype, dims, name, <<>>, data, 0)

Placeholder(dtype, dims, name) ==
  Tensor("Placeholder", dtype, dims, name, <<>>, <<>>, 0)

cast(tensor, dtype) ==
  Tensor("cast", dtype, tensor.dims, "", <<tensor>>, <<>>, 0)

reshape(tensor, dims) ==
  Tensor("reshape", tensor.dtype, dims, "", <<tensor>>, <<>>, 0)

\* the i-th (0-based) tensor an operator builder returned inside
\* edsl::layer("ng." + description, ...)
LayerOutput(description, operands, dtype, i) ==
  Tensor("ng." \o description, dtype, <<>>, "", operands, <<>>, i)

buildProgram(inputs, outputs) ==
  [built |-> TRUE, inputs |-> inputs, outputs |-> outputs]

\* build() has returned nothing
NoProgram == [built |-> FALSE, inputs |-> <<>>, outputs |-> <<>>]

NoError == [kind |-> "none", site |-> "", what |-> ""]

(***************************************************************************)
(* std::map as a function with a finite domain.                            *)
(***************************************************************************)
EmptyMap == [k \in {} |-> k]

\* m[k] = v: inserts or overwrites
Put(m, k, v) == (k :> v) @@ m

Has(m, k) == k \in DOMAIN m

\* a default-constructed edsl::Tensor
DefaultTensor == Tensor("", "INVALID", <<>>, "", <<>>, <<>>, 0)

\* MapAt with a fault: m[k] in place of m.at(k), so that a missing key yields
\* a default tensor and no exception
MapAt_Default(m, k) ==
  [found |-> TRUE, value |-> IF k \in DOMAIN m THEN m[k] ELSE DefaultTensor]

\* m.at(k): the mapped value, or std::out_of_range when k is missing
MapAt(m, k) ==
  IF Has(m, k) THEN [found |-> TRUE, value |-> m[k]]
  ELSE [found |-> FALSE, value |-> <<>>]

(***************************************************************************)
(* The graph.  A node's unique name (get_name()) fixes its kind            *)
(* (description()), its alias (get_friendly_name()) and its number of      *)
(* outputs (get_output_size()); the other attributes vary from graph to    *)
(* graph.  Unique names are generated by nGraph as <description>_<id>.     *)
(***************************************************************************)
description(name) ==
  CASE name \in {"Parameter_0", "Parameter_1"} -> "Parameter"
    [] name = "Constant_2" -> "Constant"
    [] name = "Reshape_3" -> "Reshape"
    [] name = "Split_4" -> "Split"
    [] name = "Foo_5" -> "Foo"
    [] name \in {"Result_6", "Result_7"} -> "Result"

get_friendly_name(name) ==
  CASE name = "Parameter_0" -> "in0"
    [] name = "Parameter_1" -> "in1"
    [] name = "Constant_2" -> "const"
    [] name = "Reshape_3" -> "reshape"
    [] name = "Split_4" -> "split"
    [] name = "Foo_5" -> "foo"
    [] name = "Result_6" -> "out6"
    [] name = "Result_7" -> "out7"

get_output_size(name) == IF name = "Split_4" THEN 2 ELSE 1

\* std::to_string of an output index
to_string(index) ==
  CASE index = 0 -> "0"
    [] index = 1 -> "1"
    [] index = 2 -> "2"

\* an input edge: the source output it reads
Edge(name, index) == [node |-> name, index |-> index]

Node(name, element_type, shape, data, user, inputs) ==
  [name |-> name, element_type |-> element_type, shape |-> shape,
   data |-> data, user |-> user, inputs |-> inputs, attributes |-> <<>>]

\* an attribute as visit_attributes presents it: its name, the type of the
\* ValueAccessor and the value (a double is written as an integer)
Attribute(name, kind, value) == [name |-> name, kind |-> kind, value |-> value]

\* an Operator node with its attributes, in the order they are visited
OpNode(name, inputs, attributes) ==
  [Node(name, "f32", <<>>, <<>>, "", inputs) EXCEPT !.attributes = attributes]

SpecialZero(b) == <<Attribute("special_zero", "bool", b)>>

ReduceAttributes ==
  <<Attribute("axis", "int64_t", 1), Attribute("keepdims", "bool", TRUE),
    Attribute("scales", "std::vector<double>", <<1, 2>>)>>

ModeAttributes ==
  <<Attribute("mode", "std::string", "zeros"), Attribute("axis", "int64_t", 0)>>

BodyAttributes ==
  <<Attribute("special_zero", "bool", TRUE), Attribute("body", "void", 0)>>

\* a literal buffer of n elements behind get_data_ptr()
Iota(n) == [i \in 1..n |-> i]

\* Constant nodes: element type, shape, the buffer behind get_data_ptr() and
\* the kind of get_users()[0]; the last one holds one element more than its
\* shape
ConstantNodes ==
  { Node("Constant_2", "f32", <<2, 3>>, Iota(6), "Relu", <<>>),
    Node("Constant_2", "f32", <<2, 3>>, Iota(6), "MatMul", <<>>),
    Node("Constant_2", "i32", <<3>>, <<1, 0, 12>>, "Reshape", <<>>),
    Node("Constant_2", "f32", <<4, 3, 2, 2>>, Iota(48), "Convolution", <<>>),
    Node("Constant_2", "f32", <<4, 3, 2, 2>>, Iota(48), "ReduceMean", <<>>),
    Node("Constant_2", "f32", <<1, BiasChannels, 1, 1>>, Iota(BiasChannels),
         "Relu", <<>>),
    Node("Constant_2", "f32", <<1, 2, 1, 1>>, Iota(3), "Relu", <<>>) }

ParameterNodes ==
  { Node("Parameter_0", t, <<>>, <<>>, "", <<>>) : t \in {"f32", "i32"} }
  \cup { Node("Parameter_1", "f32", <<>>, <<>>, "", <<>>) }

OpNodes ==
  { OpNode("Reshape_3", <<Edge("Parameter_0", 0), Edge("Constant_2", 0)>>,
           SpecialZero(TRUE)),
    OpNode("Reshape_3", <<Edge("Parameter_0", 0), Edge("Constant_2", 0)>>,
           BodyAttributes),
    OpNode("Reshape_3", <<Edge("Split_4", 1), Edge("Constant_2", 0)>>,
           SpecialZero(FALSE)),
    OpNode("Split_4", <<Edge("Parameter_0", 0)>>, ReduceAttributes),
    OpNode("Split_4", <<Edge("Parameter_1", 0)>>, ModeAttributes),
    OpNode("Foo_5", <<Edge("Parameter_0", 0)>>, <<>>) }

ResultNodes ==
  { Node("Result_6", "f32", <<>>, <<>>, "", <<e>>) :
      e \in { Edge("Reshape_3", 0), Edge("Parameter_0", 0),
              Edge("Split_4", 1) } }
  \cup { Node("Result_7", "f32", <<>>, <<>>, "", <<e>>) :
      e \in { Edge("Split_4", 0), Edge("Reshape_3", 0) } }

\* OpsRegistry: the operator kinds with a registered builder
RegisteredOps == {"Reshape", "Split"}

(***************************************************************************)
(* The host network: declared inputs (precision, dims) and outputs         *)
(* (precision), by name.                                                   *)
(***************************************************************************)
InputInfo(precision, dims) == [precision |-> precision, dims |-> dims]

\* the entry std::map::operator[] inserts for a missing key: a null pointer
NullInfo == [precision |-> "null", dims |-> <<>>]

InputConfigs ==
  { ("in0" :> InputInfo("FP32", <<1, 2, 3, 4>>)),
    ("in0" :> InputInfo("I32", <<1, 2, 3, 4>>)),
    ("in0" :> InputInfo("FP32", <<1, 2, 3, 4>>))
      @@ ("in1" :> InputInfo("FP32", <<2, 3>>)) }

OutputConfigs ==
  { ("reshape" :> InputInfo("FP32", <<>>)),
    ("reshape" :> InputInfo("I32", <<>>)),
    ("in0" :> InputInfo("FP32", <<>>)) @@ ("reshape" :> InputInfo("FP32", <<>>)),
    ("split.0" :> InputInfo("FP32", <<>>)) @@ ("split.1" :> InputInfo("I32", <<>>)) }

\* iteration order of a std::map<std::string, ...>: ascending keys
KeyOrder == <<"const", "in0", "in1", "reshape", "split.0", "split.1">>

Reverse(seq) == [i \in 1..Len(seq) |-> seq[Len(seq) + 1 - i]]

\* Keys with a fault: the map is walked in descending key order
Keys_Reversed(m) == Reverse(SelectSeq(KeyOrder, LAMBDA k : k \in DOMAIN m))

Keys(m) == SelectSeq(KeyOrder, LAMBDA k : k \in DOMAIN m)

(***************************************************************************)
(* Undefined behaviour of dims[i] on a std::vector<int64_t> of fewer than  *)
(* i + 1 elements: the read faults, or yields whatever the memory behind   *)
(* the vector holds.                                                       *)
(***************************************************************************)
Garbage == {7, BiasChannels}

\* what the four words starting at the vector's data may hold beyond its end
MemoryBehind(dims) ==
  IF Len(dims) >= 4 THEN {[i \in 0..3 |-> 0]} ELSE [0..3 -> Garbage]

\* dims[i], i counted from 0
At(dims, mem, i) == IF i < Len(dims) THEN dims[i + 1] ELSE mem[i]

ReadsOutOfRange(dims) == Len(dims) < 4

(***************************************************************************)
(* Exceptions and faults.                                                  *)
(***************************************************************************)
Exception(kind, site, what) == [kind |-> kind, site |-> site, what |-> what]

\* Throw with a fault: the exception is recorded but the loop goes on
Throw_Swallowed(exception) ==
  /\ phase' = phase
  /\ error' = exception
  /\ program' = program

Throw(exception) ==
  /\ phase' = "Failed"
  /\ error' = exception
  /\ program' = program

Fault ==
  /\ phase' = "Crashed"
  /\ error' = error
  /\ program' = program

Return ==
  /\ phase' = phase
  /\ error' = error
  /\ program' = program

\* the loop of build() hands the next node of get_ordered_ops() to a handler
Dispatch(node) ==
  /\ phase = "Traversing"
  /\ Len(order) < MaxNodes
  /\ \A i \in 1..Len(order) : order[i].name # node.name
  /\ order' = Append(order, node)
  /\ network' = network

(***************************************************************************)
(* handleConstant                                                          *)
(***************************************************************************)
\* Reordered with a fault: the suffix is missing
Reordered_NoSuffix(name) == name

\* the key of the reshaped tensor
Reordered(name) == name \o "_reordered"

\* DependencyUpdate with a fault: the friendly name is used for the node name
DependencyUpdate_FriendlyName(name) ==
  get_friendly_name(name) \o "_reordered"

\* the name consumers of (name, 0) are sent to
DependencyUpdate(name) == name \o "_reordered"

\* ConstantDimsReordered with a fault: the Convolution branch is missing
ConstantDimsReordered_NoConv(dims, mem, user) ==
  LET d0 == At(dims, mem, 0)
      d1 == At(dims, mem, 1)
      d2 == At(dims, mem, 2)
      d3 == At(dims, mem, 3)
      initial == <<d0, d2, d3, d1>>
      bias == IF d1 = BiasChannels THEN <<d0, 1, 1, d1>> ELSE initial
      flat == IF user \in {"ReduceMean", "Reshape"}
                THEN <<1, 1, 1, FlatTrailingDim>> ELSE bias
  IN  IF user = "MatMul" THEN <<d1, d0, 1, 1>> ELSE flat

ConstantDimsReordered(dims, mem, user) ==
  LET d0 == At(dims, mem, 0)
      d1 == At(dims, mem, 1)
      d2 == At(dims, mem, 2)
      d3 == At(dims, mem, 3)
      initial == <<d0, d2, d3, d1>>
      bias == IF d1 = BiasChannels THEN <<d0, 1, 1, d1>> ELSE initial
      conv == IF user = "Convolution" THEN <<d2, d3, d1, d0>> ELSE bias
      flat == IF user \in {"ReduceMean", "Reshape"}
                THEN <<1, 1, 1, FlatTrailingDim>> ELSE conv
  IN  IF user = "MatMul" THEN <<d1, d0, 1, 1>> ELSE flat

ConstantTensor(node) ==
  Constant(to_plaidml_type(node.element_type), node.shape,
           copy_from(node.shape, node.data), get_friendly_name(node.name))

handleConstant(node) ==
  LET dims == node.shape
      tensor == ConstantTensor(node)
      registered == Put(tensorMap, <<node.name, 0>>, tensor)
  IN  /\ UNCHANGED <<networkInputs, networkOutputs, tensorIONameMap, attrs>>
      /\ \/ /\ ReadsOutOfRange(dims)
            /\ tensorMap' = registered
            /\ updateDependenciesNameMap' = updateDependenciesNameMap
            /\ Fault
         \/ \E mem \in MemoryBehind(dims) :
              LET dims_reordered == ConstantDimsReordered(dims, mem, node.user)
                  reorder == reshape(tensor, dims_reordered)
              IN  /\ tensorMap' =
                       Put(registered, <<Reordered(node.name), 0>>, reorder)
                  /\ updateDependenciesNameMap' =
                       Put(updateDependenciesNameMap, <<node.name, 0>>,
                           DependencyUpdate(node.name))
                  /\ Return

(***************************************************************************)
(* handleParameter                                                         *)
(***************************************************************************)
ParameterDimsReordered(dims, mem) ==
  <<At(dims, mem, 0), At(dims, mem, 2), At(dims, mem, 3), At(dims, mem, 1)>>

ParameterTensor(node) ==
  LET inputDesc == networkInputs[get_friendly_name(node.name)]
  IN  Placeholder(to_plaidml_precision(inputDesc.precision), inputDesc.dims,
                  get_friendly_name(node.name))

ParameterCastTensor(node) ==
  LET tensor == ParameterTensor(node)
      ng_type == to_plaidml_type(node.element_type)
  IN  IF ng_type # tensor.dtype THEN cast(tensor, ng_type) ELSE tensor

\* ParameterBinding with a fault: the converted tensor is bound as the input
ParameterBinding_Cast(node) == ParameterCastTensor(node)

\* the tensor bound under the input's name
ParameterBinding(node) == ParameterTensor(node)

handleParameter(node) ==
  LET name == get_friendly_name(node.name)
  IN  /\ UNCHANGED <<networkOutputs, attrs>>
      /\ IF ~Has(networkInputs, name)
           THEN \* operator[] inserts a null InputInfo::Ptr, which is dereferenced
                /\ networkInputs' = Put(networkInputs, name, NullInfo)
                /\ UNCHANGED <<tensorMap, tensorIONameMap,
                               updateDependenciesNameMap>>
                /\ Fault
           ELSE LET dims == networkInputs[name].dims
                    cast_tensor == ParameterCastTensor(node)
                    registered == Put(tensorMap, <<node.name, 0>>, cast_tensor)
                IN  /\ networkInputs' = networkInputs
                    /\ tensorIONameMap' =
                         Put(tensorIONameMap, name, ParameterBinding(node))
                    /\ \/ /\ ReadsOutOfRange(dims)
                          /\ tensorMap' = registered
                          /\ updateDependenciesNameMap' =
                               updateDependenciesNameMap
                          /\ Fault
                       \/ \E mem \in MemoryBehind(dims) :
                            LET reorder ==
                                  reshape(cast_tensor,
                                          ParameterDimsReordered(dims, mem))
                            IN  /\ tensorMap' =
                                     Put(registered,
                                         <<Reordered(node.name), 0>>, reorder)
                                /\ updateDependenciesNameMap' =
                                     Put(updateDependenciesNameMap,
                                         <<node.name, 0>>,
                                         DependencyUpdate(node.name))
                                /\ Return

(***************************************************************************)
(* handleOutput                                                            *)
(***************************************************************************)
\* OutputName with a fault: the index is appended whatever the output count
OutputName_AlwaysIndexed(node) ==
  get_friendly_name(node.inputs[1].node) \o "."
    \o to_string(node.inputs[1].index)

\* the OV output name: the alias of the node prior to the result, with
\* .# appended when that node has several outputs
OutputName(node) ==
  LET src_output == node.inputs[1]
      name == get_friendly_name(src_output.node)
  IN  IF get_output_size(src_output.node) > 1
        THEN name \o "." \o to_string(src_output.index)
        ELSE name

OutputKey(node) == <<node.inputs[1].node, node.inputs[1].index>>

\* OutputTensor with a fault: the producer's tensor is bound as it is
OutputTensor_NoCast(tensor, requested_prec) == tensor

OutputTensor(tensor, requested_prec) ==
  IF requested_prec = tensor.dtype THEN tensor ELSE cast(tensor, requested_prec)

handleOutput(node) ==
  LET name == OutputName(node)
  IN  /\ UNCHANGED <<networkInputs, tensorMap, updateDependenciesNameMap,
                     attrs>>
      /\ IF ~Has(networkOutputs, name)
           THEN \* operator[] inserts a null DataPtr, which is dereferenced
                /\ networkOutputs' = Put(networkOutputs, name, NullInfo)
                /\ tensorIONameMap' = tensorIONameMap
                /\ Fault
           ELSE /\ networkOutputs' = networkOutputs
                /\ LET tensor == MapAt(tensorMap, OutputKey(node))
                       requested_prec ==
                         to_plaidml_precision(networkOutputs[name].precision)
                   IN  IF ~tensor.found
                         THEN /\ tensorIONameMap' = tensorIONameMap
                              /\ Throw(Exception("std::out_of_range",
                                                 "handleOutput", "map::at"))
                         ELSE /\ tensorIONameMap' =
                                   Put(tensorIONameMap, name,
                                       OutputTensor(tensor.value,
                                                    requested_prec))
                              /\ Return

(***************************************************************************)
(* handleOp                                                                *)
(***************************************************************************)
\* the key an input edge is looked up under: the dependency update applies
OperandKey(input) ==
  LET dep == <<input.node, input.index>>
  IN  IF Has(updateDependenciesNameMap, dep)
        THEN <<updateDependenciesNameMap[dep], input.index>>
        ELSE dep

\* tensorMap.at(dep) for each input edge, in order
OperandLookups(node) ==
  [i \in 1..Len(node.inputs) |->
     MapAt(tensorMap, OperandKey(node.inputs[i]))]

OperandsResolve(node) ==
  \A i \in 1..Len(node.inputs) : OperandLookups(node)[i].found

\* ctx.operands
Operands(node) ==
  [i \in 1..Len(node.inputs) |-> OperandLookups(node)[i].value]

\* OpResolves with a fault: the null check of the resolved builder is dropped
OpResolves_Any(kind) == TRUE

\* OpsRegistry::instance()->resolve(kind) yields a builder
OpResolves(kind) == kind \in RegisteredOps

(***************************************************************************)
(* PlaidMLAttributeVisitor: one on_adapter overload per ValueAccessor type. *)
(***************************************************************************)
VectorKinds ==
  {"std::vector<std::string>", "std::vector<float>", "std::vector<double>",
   "std::vector<int8_t>", "std::vector<int16_t>", "std::vector<int32_t>",
   "std::vector<int64_t>", "std::vector<uint8_t>", "std::vector<uint16_t>",
   "std::vector<uint32_t>", "std::vector<uint64_t>"}

ScalarKinds == {"bool", "int64_t", "double"}

\* the kind an edsl::Value carries for a C++ value of the given type
ValueTag(kind) ==
  CASE kind = "bool" -> "bool"
    [] kind \in {"int64_t", "std::vector<int8_t>", "std::vector<int16_t>",
                 "std::vector<int32_t>", "std::vector<int64_t>",
                 "std::vector<uint8_t>", "std::vector<uint16_t>",
                 "std::vector<uint32_t>", "std::vector<uint64_t>"} -> "int"
    [] kind \in {"double", "std::vector<float>", "std::vector<double>"}
         -> "float"
    [] kind \in {"std::string", "std::vector<std::string>"} -> "str"

\* plaidml::edsl::Value(x)
Value(kind, x) == [tag |-> ValueTag(kind), value |-> x]

\* plaidml::edsl::make_tuple(vec): a tuple of one Value per element
make_tuple(kind, vec) ==
  [tag |-> "tuple", value |-> [i \in 1..Len(vec) |-> Value(kind, vec[i])]]

\* the overload throws
on_adapter_throws(attribute) == attribute.kind \in {"void", "void*"}

\* on_adapter with a fault: the bool overload has the empty body of the
\* std::string overload
on_adapter_BoolDropped(dictionary, attribute) ==
  CASE attribute.kind \in {"std::string", "bool"} -> dictionary
    [] attribute.kind \in ScalarKinds \ {"bool"} ->
         Put(dictionary, attribute.name, Value(attribute.kind, attribute.value))
    [] attribute.kind \in VectorKinds ->
         Put(dictionary, attribute.name,
             make_tuple(attribute.kind, attribute.value))

\* attrs after the overload for the attribute's type has run
on_adapter(dictionary, attribute) ==
  CASE attribute.kind = "std::string" -> dictionary
    [] attribute.kind \in ScalarKinds ->
         Put(dictionary, attribute.name, Value(attribute.kind, attribute.value))
    [] attribute.kind \in VectorKinds ->
         Put(dictionary, attribute.name,
             make_tuple(attribute.kind, attribute.value))

\* node->visit_attributes(visitor): the attributes in order, up to the first
\* overload that throws
RECURSIVE visit_attributes(_, _, _)
visit_attributes(attributes, i, dictionary) ==
  IF i > Len(attributes)
    THEN [threw |-> FALSE, kind |-> "", name |-> "", attrs |-> dictionary]
  ELSE IF on_adapter_throws(attributes[i])
    THEN [threw |-> TRUE, kind |-> attributes[i].kind,
          name |-> attributes[i].name, attrs |-> dictionary]
  ELSE visit_attributes(attributes, i + 1,
                        on_adapter(dictionary, attributes[i]))

\* the tensors edsl::layer returns for a builder that yields k outputs
LayerTuple(node, operands, dtype, k) ==
  [i \in 1..k |-> LayerOutput(description(node.name), operands, dtype, i - 1)]

\* RegisterOutputs with a fault: the loop starts at the second output
RECURSIVE RegisterOutputs_FromOne(_, _, _, _)
RegisterOutputs_FromOne(map, name, tuple, i) ==
  IF i + 1 >= Len(tuple) THEN map
  ELSE RegisterOutputs_FromOne(Put(map, <<name, i + 1>>, tuple[i + 2]),
                               name, tuple, i + 1)

\* tensorMap after lines 276-279
RECURSIVE RegisterOutputs(_, _, _, _)
RegisterOutputs(map, name, tuple, i) ==
  IF i >= Len(tuple) THEN map
  ELSE RegisterOutputs(Put(map, <<name, i>>, tuple[i + 1]), name, tuple, i + 1)

handleOp(node) ==
  /\ UNCHANGED <<networkInputs, networkOutputs, tensorIONameMap,
                 updateDependenciesNameMap>>
  /\ IF ~OpResolves(description(node.name))
       THEN /\ tensorMap' = tensorMap
            /\ attrs' = attrs
            /\ Throw(Exception("InferenceEngineException", "handleOp",
                               "Unsupported operation: "
                                 \o description(node.name)))
       ELSE IF ~OperandsResolve(node)
         THEN /\ tensorMap' = tensorMap
              /\ attrs' = attrs
              /\ Throw(Exception("std::out_of_range", "handleOp", "map::at"))
         ELSE LET visitor == visit_attributes(node.attributes, 1, EmptyMap)
              IN  /\ attrs' = visitor.attrs
                  /\ IF visitor.threw
                       THEN /\ tensorMap' = tensorMap
                            /\ Throw(Exception(
                                 "InferenceEngineException", "on_adapter",
                                 "Unsupported '" \o visitor.kind
                                   \o "' attribute: " \o visitor.name))
                       ELSE \E k \in 0..MaxOutputs, dtype \in DTypes :
                              LET tuple ==
                                    LayerTuple(node, Operands(node), dtype, k)
                              IN  IF Len(tuple) # get_output_size(node.name)
                                    THEN /\ tensorMap' = tensorMap
                                         /\ Throw(Exception(
                                              "InferenceEngineException",
                                              "handleOp",
                                              "tuple.size() == node->get_output_size()"))
                                    ELSE /\ tensorMap' =
                                              RegisterOutputs(tensorMap,
                                                              node.name,
                                                              tuple, 0)
                                         /\ Return

(***************************************************************************)
(* build: the constructor, the dispatch loop, and the binding of the       *)
(* network's inputs and outputs after the loop.                            *)
(***************************************************************************)
\* tensorIONameMap.at(name) for each name, in order
BindingLookups(names) ==
  [i \in 1..Len(names) |-> MapAt(tensorIONameMap, names[i])]

\* AllBound with a fault: missing bindings are not detected
AllBound_Unchecked(names) == TRUE

AllBound(names) == \A i \in 1..Len(names) : BindingLookups(names)[i].found

BoundTensors(names) == [i \in 1..Len(names) |-> BindingLookups(names)[i].value]

\* ProgramInputs with a fault: every binding of the table is taken as an input
ProgramInputs_AllBindings ==
  LET names == SelectSeq(KeyOrder, LAMBDA k : k \in DOMAIN tensorIONameMap)
  IN  BoundTensors(names)

\* the vectors inputs and outputs of build()
ProgramInputs == BoundTensors(Keys(networkInputs))

ProgramOutputs == BoundTensors(Keys(networkOutputs))

build ==
  /\ phase = "Traversing"
  /\ UNCHANGED <<network, order, networkInputs, networkOutputs, tensorMap,
                 tensorIONameMap, updateDependenciesNameMap, attrs>>
  /\ IF AllBound(Keys(networkInputs)) /\ AllBound(Keys(networkOutputs))
       THEN /\ program' = buildProgram(ProgramInputs, ProgramOutputs)
            /\ phase' = "Built"
            /\ error' = error
       ELSE Throw(Exception("std::out_of_range", "build", "map::at"))

Init ==
  /\ network \in {[inputs |-> i, outputs |-> o] :
                    i \in InputConfigs, o \in OutputConfigs}
  /\ order = <<>>
  /\ networkInputs = network.inputs
  /\ networkOutputs = network.outputs
  /\ tensorMap = EmptyMap
  /\ tensorIONameMap = EmptyMap
  /\ updateDependenciesNameMap = EmptyMap
  /\ phase = "Traversing"
  /\ error = NoError
  /\ attrs = EmptyMap
  /\ program = NoProgram

Next ==
  \/ \E node \in ConstantNodes : Dispatch(node) /\ handleConstant(node)
  \/ \E node \in ParameterNodes : Dispatch(node) /\ handleParameter(node)
  \/ \E node \in OpNodes : Dispatch(node) /\ handleOp(node)
  \/ \E node \in ResultNodes : Dispatch(node) /\ handleOutput(node)
  \/ build

Spec == Init /\ [][Next]_vars

(***************************************************************************)
(* Vocabulary of the properties.                                           *)
(***************************************************************************)
\* the node dispatched last
Last == order[Len(order)]

IsConstant(node) == description(node.name) = "Constant"
IsParameter(node) == description(node.name) = "Parameter"
IsResult(node) == description(node.name) = "Result"
IsOp(node) == ~IsConstant(node) /\ ~IsParameter(node) /\ ~IsResult(node)

\* names of the nodes dispatched before the last one
Earlier == {order[i].name : i \in 1..(Len(order) - 1)}

\* the handler of the last node returned normally
HandlerReturned ==
  \/ phase \in {"Traversing", "Built"}
  \/ phase = "Failed" /\ error.site = "build"

\* every input edge of every node reads a node dispatched before it
Topological(seq) ==
  \A i \in 1..Len(seq) : \A e \in 1..Len(seq[i].inputs) :
    \E j \in 1..(i - 1) : seq[j].name = seq[i].inputs[e].node

\* the names the host network declares, in the order it declares them
DeclaredInputs == SelectSeq(KeyOrder, LAMBDA k : k \in DOMAIN network.inputs)
DeclaredOutputs == SelectSeq(KeyOrder, LAMBDA k : k \in DOMAIN network.outputs)

\* the last node is an Operator or Output reading a node not yet translated
MissingDependency ==
  /\ Len(order) > 0
  /\ IsOp(Last) \/ IsResult(Last)
  /\ \E e \in 1..Len(Last.inputs) : Last.inputs[e].node \notin Earlier

DependencyNotFound(site) ==
  /\ phase = "Failed"
  /\ error = Exception("std::out_of_range", site, "map::at")

UnsupportedOperator(kind) ==
  /\ phase = "Failed"
  /\ error = Exception("InferenceEngineException", "handleOp",
                       "Unsupported operation: " \o kind)

UnboundIO ==
  /\ phase = "Failed"
  /\ error = Exception("std::out_of_range", "build", "map::at")

(***************************************************************************)
(* C1: build() never returns a program whose input list or output list has *)
(* another length than the number of inputs, respectively outputs, the     *)
(* host network declares; when it returns none, the build has failed.      *)
(***************************************************************************)
C1_ProgramArity ==
  /\ program.built =>
       /\ Len(program.inputs) = Cardinality(DOMAIN network.inputs)
       /\ Len(program.outputs) = Cardinality(DOMAIN network.outputs)
  /\ ~program.built => phase # "Built"

\* a topologically ordered graph was built into a program with an input and
\* an output
C1_Witness ==
  /\ program.built
  /\ Topological(order)
  /\ Len(program.inputs) = 1
  /\ Len(program.outputs) = 1
  /\ Cardinality(DOMAIN tensorIONameMap) = 2

(***************************************************************************)
(* C2 as stated: whenever an Operator or Output node reads a node that has *)
(* not been translated, the build aborts with the out_of_range error of    *)
(* the tensorMap lookup and no program is returned.                        *)
(***************************************************************************)
C2_Original ==
  MissingDependency =>
    /\ DependencyNotFound("handleOp") \/ DependencyNotFound("handleOutput")
    /\ ~program.built

(***************************************************************************)
(* C2 amended: whenever an Operator or Output node reads a node that has   *)
(* not been translated, the node is not translated and no program is       *)
(* returned; the build ends with the out_of_range error of the tensorMap   *)
(* lookup when the lookup is reached, that is unless the Operator's kind   *)
(* has no registered builder (unsupported-operator error) or the Output's  *)
(* derived name is not a declared output (null descriptor dereferenced).   *)
(***************************************************************************)
C2_MissingDependencyAborts ==
  MissingDependency =>
    /\ ~program.built
    /\ ~HandlerReturned
    /\ \A i \in 0..MaxOutputs : ~Has(tensorMap, <<Last.name, i>>)
    /\ IsOp(Last) /\ description(Last.name) \in RegisteredOps
         => DependencyNotFound("handleOp")
    /\ IsOp(Last) /\ description(Last.name) \notin RegisteredOps
         => UnsupportedOperator(description(Last.name))
    /\ IsResult(Last) /\ OutputName(Last) \in DOMAIN network.outputs
         => DependencyNotFound("handleOutput")
    /\ IsResult(Last) /\ OutputName(Last) \notin DOMAIN network.outputs
         => phase = "Crashed"

\* an Operator with a registered builder was dispatched after one of its
\* producers but before the other, and the lookup failed
C2_Witness ==
  /\ MissingDependency
  /\ IsOp(Last)
  /\ DependencyNotFound("handleOp")
  /\ Last.inputs[1].node \in Earlier
  /\ tensorMap # EmptyMap

(***************************************************************************)
(* C3: dispatching an Operator node whose kind has no registered builder   *)
(* fails the build with the unsupported-operation error naming that kind,  *)
(* and leaves tensorMap, updateDependenciesNameMap and tensorIONameMap as  *)
(* they were before the node was dispatched.                               *)
(***************************************************************************)
C3_UnsupportedOperator ==
  [][ (/\ Len(order') = Len(order) + 1
       /\ IsOp(order'[Len(order')])
       /\ description(order'[Len(order')].name) \notin RegisteredOps)
      => /\ phase' = "Failed"
         /\ error' = Exception("InferenceEngineException", "handleOp",
                               "Unsupported operation: "
                                 \o description(order'[Len(order')].name))
         /\ ~program'.built
         /\ UNCHANGED <<tensorMap, updateDependenciesNameMap,
                        tensorIONameMap>> ]_vars

\* an unsupported Operator was dispatched after other nodes had filled the
\* registry
C3_Witness ==
  /\ Len(order) > 1
  /\ UnsupportedOperator("Foo")
  /\ Has(tensorMap, <<"Parameter_0", 0>>)
  /\ Has(tensorIONameMap, "in0")

(***************************************************************************)
(* C4: once an Output node has been translated, the tensor bound under its *)
(* derived name has the element type the host declares for that output: it *)
(* is the producer's registered tensor when the types agree and a cast of  *)
(* it to the declared type when they differ.                               *)
(***************************************************************************)
C4_OutputType ==
  (Len(order) > 0 /\ IsResult(Last) /\ HandlerReturned) =>
    LET name == OutputName(Last)
        declared == to_plaidml_precision(network.outputs[name].precision)
        producer == tensorMap[OutputKey(Last)]
        bound == tensorIONameMap[name]
    IN  /\ bound.dtype = declared
        /\ producer.dtype = declared => bound = producer
        /\ producer.dtype # declared => bound = cast(producer, declared)

\* an Output whose producer has another element type than declared
C4_Witness ==
  /\ Len(order) > 0 /\ IsResult(Last) /\ HandlerReturned
  /\ tensorMap[OutputKey(Last)].dtype = "FLOAT32"
  /\ network.outputs[OutputName(Last)].precision = "I32"
  /\ tensorIONameMap[OutputName(Last)].op = "cast"

(***************************************************************************)
(* C5: once an Input node has been translated, the tensor bound under its  *)
(* declared input name is the placeholder of the host-declared element     *)
(* type and shape, and the tensor registered under (node name, 0) has the  *)
(* graph node's element type: a cast of the placeholder when the types     *)
(* differ, the placeholder itself when they are equal.                     *)
(***************************************************************************)
C5_InputBinding ==
  (Len(order) > 0 /\ IsParameter(Last) /\ HandlerReturned) =>
    LET name == get_friendly_name(Last.name)
        desc == network.inputs[name]
        placeholder ==
          Placeholder(to_plaidml_precision(desc.precision), desc.dims, name)
        ng_type == to_plaidml_type(Last.element_type)
        registered == tensorMap[<<Last.name, 0>>]
    IN  /\ tensorIONameMap[name] = placeholder
        /\ registered.dtype = ng_type
        /\ placeholder.dtype # ng_type => registered = cast(placeholder, ng_type)
        /\ placeholder.dtype = ng_type => registered = placeholder

\* an Input whose graph type differs from the host-declared precision
C5_Witness ==
  /\ Len(order) > 0 /\ IsParameter(Last) /\ HandlerReturned
  /\ network.inputs[get_friendly_name(Last.name)].precision = "I32"
  /\ Last.element_type = "f32"
  /\ tensorMap[<<Last.name, 0>>].op = "cast"
  /\ tensorIONameMap[get_friendly_name(Last.name)].op = "Placeholder"

(***************************************************************************)
(* C6: when the traversal has ended and a declared network input or output *)
(* name has no entry in tensorIONameMap, build() fails with the            *)
(* out_of_range error of the binding lookup and returns no program.        *)
(***************************************************************************)
C6_UnboundIO ==
  (/\ phase = "Built" \/ (phase = "Failed" /\ error.site = "build")
   /\ \/ \E n \in DOMAIN network.inputs : ~Has(tensorIONameMap, n)
      \/ \E n \in DOMAIN network.outputs : ~Has(tensorIONameMap, n))
  => UnboundIO /\ ~program.built

\* the traversal ended with every input bound and an output unbound
C6_Witness ==
  /\ UnboundIO
  /\ Len(order) > 0
  /\ \A n \in DOMAIN network.inputs : Has(tensorIONameMap, n)
  /\ \E n \in DOMAIN network.outputs : ~Has(tensorIONameMap, n)

NodeTranslated(node) ==
  IF IsResult(node) THEN Has(tensorIONameMap, OutputName(node))
  ELSE \A i \in 0..(get_output_size(node.name) - 1) :
         Has(tensorMap, <<node.name, i>>)

C8_NoPartialSuccess ==
  [][ /\ error # NoError => order' = order /\ phase' = "Failed"
      /\ error' # NoError => phase' = "Failed" /\ ~program'.built
      /\ program'.built =>
           /\ phase' = "Built"
           /\ error' = NoError
           /\ \A i \in 1..Len(order') : NodeTranslated(order'[i])
           /\ \A n \in DOMAIN network.inputs : Has(tensorIONameMap', n)
           /\ \A n \in DOMAIN network.outputs : Has(tensorIONameMap', n) ]_vars

\* a translator raised while further nodes were still to come
C8_Witness ==
  /\ phase = "Failed"
  /\ error.site = "handleOp"
  /\ Len(order) = 2
  /\ ~program.built

(***************************************************************************)
(* C9 as stated: a Literal node of any shape is translated without error   *)
(* into one tensor of the node's element type and shape holding the        *)
(* node's buffer, registered under (node name, 0).                         *)
(***************************************************************************)
C9_LiteralTranslated ==
  (Len(order) > 0 /\ IsConstant(Last)) =>
    /\ HandlerReturned
    /\ Has(tensorMap, <<Last.name, 0>>)
    /\ tensorMap[<<Last.name, 0>>].dtype = to_plaidml_type(Last.element_type)
    /\ tensorMap[<<Last.name, 0>>].dims = Last.shape
    /\ tensorMap[<<Last.name, 0>>].data = Last.data

(***************************************************************************)
(* C10 as stated: the graph of the Reshape layer test (a 4-D Input, a      *)
(* rank-1 Literal, a Reshape reading both, an Output reading the Reshape)  *)
(* is translated without error into a program of one input and one        *)
(* output.                                                                 *)
(***************************************************************************)
ReshapeTestNodes ==
  { Node("Parameter_0", "f32", <<>>, <<>>, "", <<>>),
    Node("Constant_2", "i32", <<3>>, <<1, 0, 12>>, "Reshape", <<>>),
    OpNode("Reshape_3", <<Edge("Parameter_0", 0), Edge("Constant_2", 0)>>,
           SpecialZero(TRUE)),
    Node("Result_6", "f32", <<>>, <<>>, "", <<Edge("Reshape_3", 0)>>) }

\* the nodes dispatched so far begin a topological order of the test graph
ReshapeTestPrefix ==
  /\ network.inputs = ("in0" :> InputInfo("FP32", <<1, 2, 3, 4>>))
  /\ network.outputs = ("reshape" :> InputInfo("FP32", <<>>))
  /\ \A i \in 1..Len(order) : order[i] \in ReshapeTestNodes
  /\ Topological(order)

C10_ReshapeTestBuilds ==
  ReshapeTestPrefix =>
    /\ HandlerReturned
    /\ (Len(order) = 4 /\ phase # "Traversing") =>
         /\ program.built
         /\ Len(program.inputs) = 1
         /\ Len(program.outputs) = 1

(***************************************************************************)
(* C11: when an Operator node whose attributes are all boolean, signed     *)
(* 64-bit integer, double or sequence attributes has been translated, the  *)
(* attribute dictionary has exactly one entry per attribute, under the     *)
(* attribute's name, holding the attribute's value tagged with its kind,   *)
(* and no other entry.                                                     *)
(***************************************************************************)
SupportedNonString(attribute) ==
  attribute.kind \in ScalarKinds \cup VectorKinds

\* the tagged value expected for an attribute
TaggedValue(attribute) ==
  IF attribute.kind \in ScalarKinds
    THEN [tag |-> ValueTag(attribute.kind), value |-> attribute.value]
    ELSE [tag |-> "tuple",
          value |-> [i \in 1..Len(attribute.value) |->
                       [tag |-> ValueTag(attribute.kind),
                        value |-> attribute.value[i]]]]

C11_AttributeDictionary ==
  ( /\ Len(order) > 0
    /\ IsOp(Last)
    /\ HandlerReturned
    /\ \A i \in 1..Len(Last.attributes) :
         SupportedNonString(Last.attributes[i]) ) =>
    /\ DOMAIN attrs =
         {Last.attributes[i].name : i \in 1..Len(Last.attributes)}
    /\ \A i \in 1..Len(Last.attributes) :
         attrs[Last.attributes[i].name] = TaggedValue(Last.attributes[i])

\* an Operator with an integer, a boolean and a sequence attribute has been
\* translated and its dictionary has three entries
C11_Witness ==
  /\ Len(order) > 0
  /\ IsOp(Last)
  /\ HandlerReturned
  /\ Last.attributes = ReduceAttributes
  /\ Cardinality(DOMAIN attrs) = 3

(***************************************************************************)
(* C12: translating an Output node adds nothing to tensorMap or to         *)
(* updateDependenciesNameMap; the name it derives is the producer's        *)
(* friendly name when the producer has at most one output, and that name   *)
(* followed by '.' and the output index when it has more; when the         *)
(* translator returns, the producer's handle (cast to the declared         *)
(* precision where the types differ) is bound under that name and no       *)
(* other binding has changed.                                              *)
(***************************************************************************)
ProducerName(node) ==
  IF get_output_size(node.inputs[1].node) <= 1
    THEN get_friendly_name(node.inputs[1].node)
    ELSE get_friendly_name(node.inputs[1].node) \o "."
           \o to_string(node.inputs[1].index)

ProducerHandle(node) == tensorMap[<<node.inputs[1].node, node.inputs[1].index>>]

C12_OutputBinding ==
  [][ (/\ Len(order') = Len(order) + 1
       /\ IsResult(order'[Len(order')]))
      => LET node == order'[Len(order')]
         IN  /\ UNCHANGED <<tensorMap, updateDependenciesNameMap>>
             /\ ProducerName(node) \in DOMAIN networkOutputs'
             /\ phase' = "Traversing" =>
                  /\ DOMAIN tensorIONameMap' =
                       DOMAIN tensorIONameMap \cup {ProducerName(node)}
                  /\ tensorIONameMap'[ProducerName(node)] \in
                       { ProducerHandle(node),
                         cast(ProducerHandle(node),
                              to_plaidml_precision(
                                networkOutputs[ProducerName(node)].precision)) }
                  /\ \A k \in DOMAIN tensorIONameMap \ {ProducerName(node)} :
                       tensorIONameMap'[k] = tensorIONameMap[k] ]_vars

\* the Output translated last reads slot 1 of a two-output producer and is
\* bound under the producer's friendly name followed by ".1"
C12_Witness ==
  /\ Len(order) > 0
  /\ IsResult(Last)
  /\ phase = "Traversing"
  /\ get_output_size(Last.inputs[1].node) = 2
  /\ Last.inputs[1].index = 1
  /\ Has(tensorIONameMap, "split.1")

(***************************************************************************)
(* C13 as stated: when a dependency update is installed for (A, i), an     *)
(* Operator node and an Output node reading (A, i) both receive the        *)
(* tensor registered under the updated name, never the one registered      *)
(* under (A, i) itself.                                                    *)
(***************************************************************************)
Redirected(input) ==
  Has(updateDependenciesNameMap, <<input.node, input.index>>)

RedirectedHandle(input) ==
  tensorMap[<<updateDependenciesNameMap[<<input.node, input.index>>],
              input.index>>]

C13_ConsumersRedirected ==
  (Len(order) > 0 /\ phase = "Traversing") =>
    /\ IsOp(Last) =>
         \A e \in 1..Len(Last.inputs) :
           Redirected(Last.inputs[e]) =>
             tensorMap[<<Last.name, 0>>].args[e] =
               RedirectedHandle(Last.inputs[e])
    /\ (IsResult(Last) /\ Redirected(Last.inputs[1])) =>
         tensorIONameMap[ProducerName(Last)] \in
           { RedirectedHandle(Last.inputs[1]),
             cast(RedirectedHandle(Last.inputs[1]),
                  to_plaidml_precision(
                    networkOutputs[ProducerName(Last)].precision)) }

(***************************************************************************)
(* C14: when an Operator node of declared output arity n reaches its       *)
(* builder, the step ends in one of two ways. Either the build aborts with *)
(* the output-arity assertion and tensorMap is as it was, or the           *)
(* translator returns and tensorMap has gained exactly the keys            *)
(* (node name, 0) .. (node name, n-1), the i-th holding the i-th tensor    *)
(* the builder returned, every other key keeping its tensor. In both       *)
(* cases updateDependenciesNameMap and tensorIONameMap are unchanged.      *)
(***************************************************************************)
ArityMismatch ==
  Exception("InferenceEngineException", "handleOp",
            "tuple.size() == node->get_output_size()")

\* the node reaches edsl::layer: its kind is registered, its operands are
\* found and no attribute is rejected
ReachesBuilder(node) ==
  /\ IsOp(node)
  /\ description(node.name) \in RegisteredOps
  /\ \A e \in 1..Len(node.inputs) :
       \E k \in DOMAIN tensorMap :
         /\ k[2] = node.inputs[e].index
         /\ k[1] = IF Redirected(node.inputs[e])
                     THEN updateDependenciesNameMap[
                            <<node.inputs[e].node, node.inputs[e].index>>]
                     ELSE node.inputs[e].node
  /\ \A a \in 1..Len(node.attributes) :
       node.attributes[a].kind \notin {"void", "void*"}

OwnKeys(node) == {<<node.name, i>> : i \in 0..(get_output_size(node.name) - 1)}

C14_OutputArity ==
  [][ (/\ Len(order') = Len(order) + 1
       /\ ReachesBuilder(order'[Len(order')]))
      => LET node == order'[Len(order')]
         IN  /\ UNCHANGED <<updateDependenciesNameMap, tensorIONameMap>>
             /\ \/ /\ phase' = "Failed"
                   /\ error' = ArityMismatch
                   /\ ~program'.built
                   /\ tensorMap' = tensorMap
                \/ /\ phase' = "Traversing"
                   /\ DOMAIN tensorMap' = DOMAIN tensorMap \cup OwnKeys(node)
                   /\ \A k \in OwnKeys(node) :
                        /\ tensorMap'[k].op = "ng." \o description(node.name)
                        /\ tensorMap'[k].index = k[2]
                   /\ \A k \in DOMAIN tensorMap \ OwnKeys(node) :
                        tensorMap'[k] = tensorMap[k] ]_vars

\* a two-output Operator has been translated and both outputs are
\* registered
C14_Witness ==
  /\ Len(order) > 0
  /\ IsOp(Last)
  /\ phase = "Traversing"
  /\ get_output_size(Last.name) = 2
  /\ Has(tensorMap, <<Last.name, 0>>)
  /\ Has(tensorMap, <<Last.name, 1>>)

(***************************************************************************)
(* C15: with pairwise distinct node names, no key of tensorMap is written  *)
(* twice in one build. Every step keeps every registered key with the      *)
(* tensor it had, and a Literal or Input node that is translated adds two  *)
(* new keys, its own and its "_reordered" one.                             *)
(***************************************************************************)
DistinctNames(seq) ==
  \A i, j \in 1..Len(seq) : i # j => seq[i].name # seq[j].name

C15_SingleWriter ==
  [][ DistinctNames(order') =>
        /\ \A k \in DOMAIN tensorMap :
             k \in DOMAIN tensorMap' /\ tensorMap'[k] = tensorMap[k]
        /\ (/\ Len(order') = Len(order) + 1
            /\ phase' = "Traversing"
            /\ \/ IsConstant(order'[Len(order')])
               \/ IsParameter(order'[Len(order')]))
           => Cardinality(DOMAIN tensorMap' \ DOMAIN tensorMap) = 2 ]_vars

\* a Literal, an Input and an Operator have been translated one after the
\* other and the registry holds the five keys they wrote
C15_Witness ==
  /\ Len(order) >= 3
  /\ phase = "Traversing"
  /\ \E i \in 1..Len(order) : IsConstant(order[i])
  /\ \E i \in 1..Len(order) : IsParameter(order[i])
  /\ IsOp(Last)
  /\ Cardinality(DOMAIN tensorMap) = 5

(***************************************************************************)
(* C16 as stated: a Literal node whose buffer does not hold as many        *)
(* elements as its shape fails in handleConstant with an exception and     *)
(* registers nothing.                                                      *)
(***************************************************************************)
C16_ShapeMismatch ==
  ( /\ Len(order) > 0
    /\ IsConstant(Last)
    /\ Len(Last.data) # Product(Last.shape) ) =>
    /\ phase = "Failed"
    /\ error.site = "handleConstant"
    /\ ~Has(tensorMap, <<Last.name, 0>>)
    /\ ~Has(tensorMap, <<Reordered(Last.name), 0>>)

(***************************************************************************)
(* C17 as stated: for a Literal node of shape [O, I, H, W] whose first     *)
(* user is a Convolution, the tensor registered under the "_reordered"     *)
(* key has O as its first dimension and I as its last.                     *)
(***************************************************************************)
ConvolutionLiteral ==
  /\ Len(order) > 0
  /\ IsConstant(Last)
  /\ Last.user = "Convolution"
  /\ Len(Last.shape) = 4
  /\ HandlerReturned

C17_Original ==
  ConvolutionLiteral =>
    /\ tensorMap[<<Reordered(Last.name), 0>>].dims[1] = Last.shape[1]
    /\ tensorMap[<<Reordered(Last.name), 0>>].dims[4] = Last.shape[2]

(***************************************************************************)
(* C17, amended: for a Literal node of shape [O, I, H, W] whose first user *)
(* is a Convolution, the tensor registered under the "_reordered" key and  *)
(* reached through the dependency update has the shape [H, W, I, O]: the   *)
(* input-channel dimension third and the output-channel dimension last.    *)
(***************************************************************************)
C17_ConvolutionReorder ==
  ConvolutionLiteral =>
    /\ updateDependenciesNameMap[<<Last.name, 0>>] = Reordered(Last.name)
    /\ tensorMap[<<Reordered(Last.name), 0>>].dims =
         <<Last.shape[3], Last.shape[4], Last.shape[2], Last.shape[1]>>

\* a Literal of shape [4, 3, 2, 2] read by a Convolution has been translated
C17_Witness ==
  /\ ConvolutionLiteral
  /\ Last.shape = <<4, 3, 2, 2>>
  /\ Has(tensorMap, <<Reordered(Last.name), 0>>)

(***************************************************************************)
(* C18: every entry of updateDependenciesNameMap points at a registered    *)
(* tensor: if (A, i) is updated to the name R then (R, i) is a key of      *)
(* tensorMap, so the lookup of an updated dependency does not fail.        *)
(***************************************************************************)
C18_RedirectsRegistered ==
  \A k \in DOMAIN updateDependenciesNameMap :
    Has(tensorMap, <<updateDependenciesNameMap[k], k[2]>>)

\* a Literal and an Input have installed their updates and an Operator
\* reading through them has been translated
C18_Witness ==
  /\ Cardinality(DOMAIN updateDependenciesNameMap) = 2
  /\ Len(order) > 0
  /\ IsOp(Last)
  /\ \A e \in 1..Len(Last.inputs) : Redirected(Last.inputs[e])
  /\ phase = "Traversing"

(***************************************************************************)
(* C19 as stated: for every Literal and Input node that has been           *)
(* translated, the tensor registered under the "_reordered" key has as     *)
(* many elements as the tensor registered under (node name, 0).            *)
(***************************************************************************)
C19_ElementCountKept ==
  \A i \in 1..Len(order) :
    ( /\ IsConstant(order[i]) \/ IsParameter(order[i])
      /\ Has(tensorMap, <<Reordered(order[i].name), 0>>) ) =>
      Product(tensorMap[<<Reordered(order[i].name), 0>>].dims) =
        Product(tensorMap[<<order[i].name, 0>>].dims)

(***************************************************************************)
(* C20 as stated: no later node replaces the binding of an Input: for      *)
(* every Input node that has been translated the tensor bound under its    *)
(* declared name is still the placeholder of the host-declared element     *)
(* type and shape, and the input list of a built program holds these       *)
(* placeholders.                                                           *)
(***************************************************************************)
DeclaredPlaceholder(name) ==
  Placeholder(to_plaidml_precision(network.inputs[name].precision),
              network.inputs[name].dims, name)

C20_InputBindingKept ==
  /\ \A i \in 1..Len(order) :
       ( /\ IsParameter(order[i])
         /\ Has(tensorMap, <<order[i].name, 0>>) ) =>
         tensorIONameMap[get_friendly_name(order[i].name)] =
           DeclaredPlaceholder(get_friendly_name(order[i].name))
  /\ program.built =>
       \A j \in 1..Len(DeclaredInputs) :
         program.inputs[j] = DeclaredPlaceholder(DeclaredInputs[j])
====
